---- MODULE Spec2Model ----
(***************************************************************************)
(* Model of scripts/blender/extract_anatomy.py: the Z-Anatomy extractor.   *)
(* One run of main(): parse sys.argv, create the output directory, then    *)
(* inside one try block extract the four anatomy meshes from the host      *)
(* scene, process them, centre them, build the two pose collections and    *)
(* export them; the except clause turns a failure into exit status 1 and   *)
(* the finally clause runs cleanup_scene().                                *)
(*                                                                         *)
(* Names are strings, matched and prefixed character by character.  The    *)
(* host keeps the names of its objects (and of its collections) unique: a  *)
(* name that is taken gets a numeric suffix (.001, .002, ...).  A host     *)
(* operator can fail (raise) for reasons the script does not control; that *)
(* is an input of the step, drawn from BOOLEAN.                            *)
(*                                                                         *)
(* The two letters outside ASCII are written "e~" (e grave) and "o~e"      *)
(* (the oe ligature).                                                      *)
(***************************************************************************)
EXTENDS Bags, FiniteSets, Integers, Sequences, TLC

VARIABLES
    argv,        \* sys.argv
    output_dir,  \* main's output_dir
    objects,     \* bpy.data.objects: a set of object records, names unique
    collections, \* bpy.data.collections: a set of collection records, names unique
    meshes,      \* main's meshes (extract_anatomy_meshes' extracted): key -> object name
    poses,       \* main's open_collection / closed_collection: pose -> collection name
    files,       \* the files written by the exporter: path -> set of exported objects
    declog,      \* decimate_mesh's log line per processed key
    pc,          \* position in main
    pending,     \* the exception in flight: "none", "Exception", "SystemExit"
    failed,      \* the statement that raised, "none" while none has
    errlog,      \* the [ERROR] lines printed by the except clause
    trace,       \* the steps of the try block that were started, in order
    cleanups,    \* how many times cleanup_scene() has run
    exit_code    \* the process exit status; -1 while the process runs

vars == <<argv, output_dir, objects, collections, meshes, poses, files, declog,
          pc, pending, failed, errlog, trace, cleanups, exit_code>>

----------------------------------------------------------------------------
(* Bounds of the model *)

MaxArgs == 5        \* longest sys.argv explored
MaxSceneObjs == 3   \* most objects in the input scene

----------------------------------------------------------------------------
(* Configuration: lines 51-120 *)

KeyOrder == <<"Body", "Veins", "Brain", "Heart">>

Keys == {KeyOrder[i] : i \in 1..Len(KeyOrder)}

MESH_PATTERNS ==
    [Body  |-> <<"skin", "peau", "body", "corps", "integument", "epiderm",
                 "dermis", "cutaneous">>,
     Veins |-> <<"vein", "veine", "artery", "arte~re", "artere", "vessel",
                 "vaisseau", "circulat", "blood", "sang", "aorta", "aorte",
                 "vascular", "cardiovascular">>,
     Brain |-> <<"brain", "cerveau", "cerebr", "encephal", "cortex",
                 "cerebellum", "cervelet", "neural">>,
     Heart |-> <<"heart", "coeur", "co~eur", "cardiac", "cardiaque",
                 "ventricle", "ventricul", "atrium", "auricle">>]

TARGET_TRIANGLES == [Body |-> 20000, Veins |-> 30000, Brain |-> 15000, Heart |-> 10000]

\* The shoulder rotations, in degrees, of the two poses: (shoulder_l, shoulder_r).
POSE_TRANSFORMS == [open |-> <<-80, 80>>, closed |-> <<-10, 10>>]

DefaultOutputDir == "public/models/human"

----------------------------------------------------------------------------
(* Strings *)

UpperCase == "ABCDEFGHIJKLMNOPQRSTUVWXYZ"
LowerCase == "abcdefghijklmnopqrstuvwxyz"

\* str.lower() of one character
LowerChar(c) ==
    IF \E i \in 1..Len(UpperCase) : SubSeq(UpperCase, i, i) = c
    THEN LET i == CHOOSE j \in 1..Len(UpperCase) : SubSeq(UpperCase, j, j) = c
         IN  SubSeq(LowerCase, i, i)
    ELSE c

RECURSIVE Lower(_)
\* str.lower()
Lower(s) ==
    IF Len(s) = 0 THEN s
    ELSE LowerChar(SubSeq(s, 1, 1)) \o Lower(SubSeq(s, 2, Len(s)))

\* Python's `sub in s`
Contains(sub, s) ==
    \E i \in 0..(Len(s) - Len(sub)) : SubSeq(s, i + 1, i + Len(sub)) = sub

\* str.startswith
StartsWith(s, prefix) ==
    Len(s) >= Len(prefix) /\ SubSeq(s, 1, Len(prefix)) = prefix

\* The host's unique naming of data-blocks.  bpy.data.objects.new(name, ...),
\* bpy.data.collections.new(name) and an assignment to obj.name never give two
\* data-blocks of one kind the same name: a name that is taken becomes the
\* first free of name.001, name.002, ...
Suffixes == <<".001", ".002", ".003", ".004", ".005", ".006">>

UniqueName(name, taken) ==
    IF name \notin taken THEN name
    ELSE LET n == CHOOSE k \in 1..Len(Suffixes) :
                    /\ (name \o Suffixes[k]) \notin taken
                    /\ \A j \in 1..(k - 1) : (name \o Suffixes[j]) \in taken
         IN  name \o Suffixes[n]

----------------------------------------------------------------------------
(* Argument parsing: main, lines 435-448 *)

\* argv[argv.index("--") + 1:] if "--" in argv else []
AfterSeparator(a) ==
    IF \E i \in 1..Len(a) : a[i] = "--"
    THEN LET first == CHOOSE i \in 1..Len(a) :
                        a[i] = "--" /\ \A j \in 1..(i - 1) : a[j] # "--"
         IN  SubSeq(a, first + 1, Len(a))
    ELSE <<>>

\* the guard of line 447; i counts from 1 here, from 0 in the source
OutputHasValue(rest, i) == rest[i] = "--output" /\ i + 1 <= Len(rest)

RECURSIVE ParseLoopFirst(_, _, _)
\* the loop with a break after the assignment: the first "--output" wins
ParseLoopFirst(rest, i, out) ==
    IF i > Len(rest) THEN out
    ELSE IF OutputHasValue(rest, i) THEN rest[i + 1]
         ELSE ParseLoopFirst(rest, i + 1, out)

RECURSIVE ParseLoop(_, _, _)
\* the loop of lines 446-448 from position i on, with output_dir = out so far
ParseLoop(rest, i, out) ==
    IF i > Len(rest) THEN out
    ELSE ParseLoop(rest, i + 1, IF OutputHasValue(rest, i) THEN rest[i + 1] ELSE out)

ParseOutputDir(a) == ParseLoop(AfterSeparator(a), 1, DefaultOutputDir)

\* str(output_path / name)
JoinPath(dir, name) == dir \o "/" \o name

----------------------------------------------------------------------------
(* The host scene *)

MasterCollection == "Collection"

\* An object of bpy.data.objects.  parts is the bag of input objects whose
\* geometry the mesh holds; created marks what this run has created; pose is
\* the shoulder rotation the script has applied to it.
NewObject(name, type, tris, parts, created, placeholder) ==
    [name |-> name, type |-> type, tris |-> tris, parts |-> parts,
     colls |-> {MasterCollection}, created |-> created,
     placeholder |-> placeholder, mods |-> <<>>, render |-> TRUE,
     applied |-> FALSE, floor |-> FALSE, pose |-> <<0, 0>>]

Names(objs) == {o.name : o \in objs}

ObjectNamed(objs, n) == CHOOSE o \in objs : o.name = n

\* The objects an input scene is drawn from: a name and a type.
InputKinds ==
    {<<"Skin", "MESH">>, <<"Cardiovascular", "MESH">>, <<"Heart vein", "MESH">>,
     <<"BRAIN", "MESH">>, <<"Heart", "MESH">>, <<"Femur", "MESH">>,
     <<"Body", "EMPTY">>}

\* The triangle counts an input mesh is drawn from.
TriChoices == {0, 10000, 30001}

InputObject(k, t) ==
    IF k[2] = "MESH" THEN NewObject(k[1], k[2], t, SetToBag({k[1]}), FALSE, FALSE)
    ELSE NewObject(k[1], k[2], 0, EmptyBag, FALSE, FALSE)

Scenes ==
    UNION {{{InputObject(k, f[k]) : k \in K} : f \in [K -> TriChoices]} :
            K \in {X \in SUBSET InputKinds : Cardinality(X) <= MaxSceneObjs}}

\* A collection of bpy.data.collections; created marks what this run has created.
NewCollection(name, created) == [name |-> name, created |-> created]

\* The collections a scene can hold before the run.
InputCollections ==
    {{NewCollection(MasterCollection, FALSE)},
     {NewCollection(MasterCollection, FALSE), NewCollection("HumanLayer_open", FALSE)}}

RECURSIVE SetToSeq(_)
\* `for obj in bpy.data.objects`: the objects in the host's order
SetToSeq(S) ==
    IF S = {} THEN <<>>
    ELSE LET x == CHOOSE y \in S : TRUE IN <<x>> \o SetToSeq(S \ {x})

RECURSIVE SumTris(_)
SumTris(seq) == IF seq = <<>> THEN 0 ELSE Head(seq).tris + SumTris(Tail(seq))

RECURSIVE SumParts(_)
SumParts(seq) == IF seq = <<>> THEN EmptyBag ELSE Head(seq).parts (+) SumParts(Tail(seq))

----------------------------------------------------------------------------
(* find_meshes_by_pattern, lines 133-144 *)

\* pattern.lower() of every configured pattern
LowerPattern ==
    [p \in UNION {{MESH_PATTERNS[k][i] : i \in 1..Len(MESH_PATTERNS[k])} : k \in Keys}
        |-> Lower(p)]

RECURSIVE PatternLoopNoBreak(_, _, _, _)
\* the inner loop without its break: one append per matching pattern
PatternLoopNoBreak(obj, name_lower, patterns, j) ==
    IF j > Len(patterns) THEN <<>>
    ELSE IF Contains(LowerPattern[patterns[j]], name_lower)
         THEN <<obj>> \o PatternLoopNoBreak(obj, name_lower, patterns, j + 1)
         ELSE PatternLoopNoBreak(obj, name_lower, patterns, j + 1)

RECURSIVE PatternLoop(_, _, _, _)
\* the inner loop of lines 140-143 from pattern j on: what it appends for obj
PatternLoop(obj, name_lower, patterns, j) ==
    IF j > Len(patterns) THEN <<>>
    ELSE IF Contains(LowerPattern[patterns[j]], name_lower)
         THEN <<obj>>
         ELSE PatternLoop(obj, name_lower, patterns, j + 1)

\* lines 137-138
IsMesh(obj) == obj.type = "MESH"

RECURSIVE ObjectLoop(_, _)
ObjectLoop(seq, patterns) ==
    IF seq = <<>> THEN <<>>
    ELSE (IF IsMesh(Head(seq))
          THEN PatternLoop(Head(seq), Lower(Head(seq).name), patterns, 1)
          ELSE <<>>)
         \o ObjectLoop(Tail(seq), patterns)

find_meshes_by_pattern(objs, patterns) == ObjectLoop(SetToSeq(objs), patterns)

----------------------------------------------------------------------------
(* duplicate_object, join_meshes, create_placeholder_mesh *)

\* lines 160-175: a new object with a copy of the mesh and of the transform,
\* linked to the active collection; the host makes the name unique
duplicate_object(objs, obj, name) ==
    [obj EXCEPT !.name = UniqueName(name, Names(objs)),
                !.colls = {MasterCollection},
                !.created = TRUE,
                !.mods = <<>>]

RECURSIVE Duplicates(_, _, _)
\* lines 191-195: the duplicates of the objects to join, in order
Duplicates(objs, found, name) ==
    IF found = <<>> THEN <<>>
    ELSE LET d == duplicate_object(objs, Head(found), name)
         IN  <<d>> \o Duplicates(objs \cup {d}, Tail(found), name)

\* lines 178-208: the object join_meshes returns (objects is not empty here)
join_meshes(objs, found, name) ==
    IF Len(found) = 1 THEN duplicate_object(objs, found[1], name)
    ELSE LET dups == Duplicates(objs, found, name \o "_part")
         IN  [dups[1] EXCEPT !.name = UniqueName(name, Names(objs)),
                             !.tris = SumTris(dups),
                             !.parts = SumParts(dups)]

\* what a join that raises at line 201 leaves behind: the duplicates
JoinLeftovers(objs, found, name) ==
    IF Len(found) = 1 THEN {}
    ELSE LET dups == Duplicates(objs, found, name \o "_part")
         IN  {dups[i] : i \in 1..Len(dups)}

\* The triangles of the primitives of lines 314-330: a UV sphere of s segments
\* and r rings has 2*s*(r-1) triangles, the default cylinder (32 vertices,
\* n-gon caps) 124, the cube 12.
PlaceholderTris(name) ==
    CASE name = "Body"  -> 2 * 32 * (16 - 1)
      [] name = "Heart" -> 2 * 16 * (8 - 1)
      [] name = "Brain" -> 2 * 24 * (12 - 1)
      [] name = "Veins" -> 124
      [] OTHER          -> 12

\* lines 310-337
create_placeholder_mesh(objs, name) ==
    NewObject(UniqueName(name, Names(objs)), "MESH", PlaceholderTris(name),
              EmptyBag, TRUE, TRUE)

----------------------------------------------------------------------------
(* decimate_mesh and the rest of process_meshes *)

\* lines 147-157
get_mesh_triangle_count(obj) == IF obj.type # "MESH" THEN 0 ELSE obj.tris

\* the test of line 215 with >= for >
DecimateNeededOffByOne(current_tris, target_triangles) ==
    current_tris >= target_triangles

\* line 215, negated: decimation goes ahead
DecimateNeeded(current_tris, target_triangles) == current_tris > target_triangles

\* The triangle counts the host's collapse can leave for a requested ratio of
\* target/current: the target, or one short of it.
DecimateOutcomes(target, current) == {target - 1, target}

\* lines 211-232: the possible results: the object afterwards, the log line,
\* and whether the call raised (the division of line 219 by zero)
decimate_mesh(obj, target_triangles) ==
    LET current_tris == get_mesh_triangle_count(obj) IN
    IF ~DecimateNeeded(current_tris, target_triangles)
    THEN {[obj |-> obj, raised |-> FALSE,
           log |-> [before |-> current_tris, target |-> target_triangles,
                    decimated |-> FALSE, ratio |-> <<>>, after |-> obj.tris,
                    mods_before |-> obj.mods, mods_after |-> obj.mods]]}
    ELSE IF current_tris = 0
    THEN {[obj |-> obj, raised |-> TRUE, log |-> <<>>]}
    ELSE {[obj |-> [obj EXCEPT !.tris = n], raised |-> FALSE,
           log |-> [before |-> current_tris, target |-> target_triangles,
                    decimated |-> TRUE, ratio |-> <<target_triangles, current_tris>>,
                    after |-> n,
                    mods_before |-> obj.mods, mods_after |-> obj.mods]] :
            n \in DecimateOutcomes(target_triangles, current_tris)}

\* lines 235-240
apply_all_transforms(obj) == [obj EXCEPT !.applied = TRUE]

\* lines 243-260
cleanup_mesh(obj) == [obj EXCEPT !.render = FALSE]

\* lines 263-278
center_origin_to_floor(obj) == [obj EXCEPT !.floor = TRUE]

----------------------------------------------------------------------------
(* create_pose_collection, export_collection_to_glb, cleanup_scene *)

RECURSIVE PoseLoop(_, _, _, _)
\* lines 372-379 from key i on: the objects with the duplicates added
PoseLoop(objs, ms, collection, i) ==
    IF i > Len(KeyOrder) THEN objs
    ELSE LET name == KeyOrder[i]
             new_obj == duplicate_object(objs, ObjectNamed(objs, ms[name]), name)
         IN  PoseLoop(objs \cup {[new_obj EXCEPT !.colls = {collection}]},
                      ms, collection, i + 1)

\* line 368: the new collection's name, made unique by the host
PoseCollectionName(colls, pose_name) ==
    UniqueName("HumanLayer_" \o pose_name, Names(colls))

\* lines 361-384; POSE_TRANSFORMS is not applied (lines 381-382)
create_pose_collection(objs, colls, ms, pose_name) ==
    LET collection == PoseCollectionName(colls, pose_name)
    IN  [objects |-> PoseLoop(objs, ms, collection, 1),
         collections |-> colls \cup {NewCollection(collection, TRUE)},
         collection |-> collection]

\* lines 391-409: what the exporter writes: the selected objects
ExportedObjects(objs, collection) ==
    {[name |-> o.name, type |-> o.type, tris |-> o.tris, parts |-> o.parts,
      pose |-> o.pose] : o \in {x \in objs : collection \in x.colls}}

\* line 418 with the two names the script asks for instead of the prefix
IsHumanLayerExact(name) == name \in {"HumanLayer_open", "HumanLayer_closed"}

\* line 418
IsHumanLayer(name) == StartsWith(name, "HumanLayer_")

\* lines 414-421
cleanup_scene(objs, colls) ==
    [objects |-> {o \in objs : \A c \in o.colls : ~IsHumanLayer(c)},
     collections |-> {c \in colls : ~IsHumanLayer(c.name)}]

----------------------------------------------------------------------------
(* main, lines 429-495 *)

\* the statements of the try block in a wrong order: the exports swapped
StepOrderSwapped ==
    <<"extract", "process", "center", "create_open", "create_closed",
      "export_closed", "export_open">>

\* The statements of the try block, lines 457-475, in program order.
StepOrder ==
    <<"extract", "process", "center", "create_open", "create_closed",
      "export_open", "export_closed">>

\* where control goes when a step returns: the next statement, or the finally clause
StepAfter(step) ==
    LET i == CHOOSE j \in 1..Len(StepOrder) : StepOrder[j] = step
    IN  IF i = Len(StepOrder) THEN "finally" ELSE StepOrder[i + 1]

\* sys.exit(1) left out of the except clause
ExitStatusAlwaysZero(exc) == 0

\* The exit status: 1 when SystemExit(1) (line 491) or an unhandled exception
\* ends the process, 0 when main returns.
ExitStatus(exc) == IF exc = "none" THEN 0 ELSE 1

\* the argument lists of the sample invocations
ArgvSamples == {<<"blender">>, <<"blender", "--", "--output", "out">>}

ArgTokens == {"--", "--output", "a", "b"}

AllArgvs == UNION {[1..n -> ArgTokens] : n \in 0..MaxArgs}

Start(a, scene, colls) ==
    /\ argv = a
    /\ output_dir = ""
    /\ objects = scene
    /\ collections = colls
    /\ meshes = <<>>
    /\ poses = <<>>
    /\ files = <<>>
    /\ declog = <<>>
    /\ pc = "parse"
    /\ pending = "none"
    /\ failed = "none"
    /\ errlog = <<>>
    /\ trace = <<>>
    /\ cleanups = 0
    /\ exit_code = -1

Init ==
    \E a \in ArgvSamples, scene \in Scenes, colls \in InputCollections :
        Start(a, scene, colls)

\* every argument list up to MaxArgs tokens, on one scene
InitArgs ==
    \E a \in AllArgvs :
        Start(a, {InputObject(<<"Skin", "MESH">>, 30001)},
              {NewCollection(MasterCollection, FALSE)})

\* a statement of the try block returns
Return(step) ==
    /\ pc' = StepAfter(step)
    /\ UNCHANGED <<pending, failed>>

\* the loop of a step goes on to its next key
Continue(step) ==
    /\ pc' = step
    /\ UNCHANGED <<pending, failed>>

\* a statement of the try block raises
Raise(step) ==
    /\ pc' = "except"
    /\ pending' = "Exception"
    /\ failed' = step

\* the step is logged as started the first time one of its actions runs
Started(step) ==
    trace' = IF trace # <<>> /\ trace[Len(trace)] = step THEN trace
             ELSE Append(trace, step)

\* lines 435-448
ParseArgs ==
    /\ pc = "parse"
    /\ output_dir' = ParseOutputDir(argv)
    /\ pc' = "mkdir"
    /\ UNCHANGED <<argv, objects, collections, meshes, poses, files, declog,
                   pending, failed, errlog, trace, cleanups, exit_code>>

\* lines 451-454
MkdirOk ==
    /\ pc = "mkdir"
    /\ pc' = StepOrder[1]
    /\ UNCHANGED <<argv, output_dir, objects, collections, meshes, poses, files,
                   declog, pending, failed, errlog, trace, cleanups, exit_code>>

\* line 452 raises outside the try block: the exception ends the process
MkdirFail ==
    /\ pc = "mkdir"
    /\ pc' = "aborted"
    /\ pending' = "Exception"
    /\ failed' = "mkdir"
    /\ exit_code' = ExitStatus("Exception")
    /\ UNCHANGED <<argv, output_dir, objects, collections, meshes, poses, files,
                   declog, errlog, trace, cleanups>>

\* the key the loop of line 292 is at
ExtractKeyNow == KeyOrder[Cardinality(DOMAIN meshes) + 1]

\* lines 292-305 for one key
ExtractOk ==
    /\ pc = "extract"
    /\ \E mesh_name \in {ExtractKeyNow} :
       \E found \in {find_meshes_by_pattern(objects, MESH_PATTERNS[mesh_name])} :
       \E obj \in {IF found = <<>> THEN create_placeholder_mesh(objects, mesh_name)
                   ELSE join_meshes(objects, found, mesh_name)} :
           /\ objects' = objects \cup {obj}
           /\ meshes' = meshes @@ (mesh_name :> obj.name)
           /\ IF Cardinality(DOMAIN meshes) + 1 = Len(KeyOrder)
              THEN Return("extract")
              ELSE Continue("extract")
    /\ Started("extract")
    /\ UNCHANGED <<argv, output_dir, collections, poses, files, declog, errlog,
                   cleanups, exit_code>>

\* a host call of lines 292-305 raises
ExtractFail ==
    /\ pc = "extract"
    /\ \E mesh_name \in {ExtractKeyNow} :
       \E found \in {find_meshes_by_pattern(objects, MESH_PATTERNS[mesh_name])} :
           objects' = objects \cup
               (IF found = <<>> THEN {} ELSE JoinLeftovers(objects, found, mesh_name))
    /\ Raise("extract")
    /\ Started("extract")
    /\ UNCHANGED <<argv, output_dir, collections, meshes, poses, files, declog,
                   errlog, cleanups, exit_code>>

\* the key the loop of line 344 is at
ProcessKeyNow == KeyOrder[Cardinality(DOMAIN declog) + 1]

\* lines 344-358 for one key
ProcessOk ==
    /\ pc = "process"
    /\ LET name == ProcessKeyNow
           obj == ObjectNamed(objects, meshes[name])
       IN  \E r \in decimate_mesh(apply_all_transforms(obj), TARGET_TRIANGLES[name]) :
               /\ ~r.raised
               /\ objects' = (objects \ {obj})
                      \cup {apply_all_transforms(cleanup_mesh(r.obj))}
               /\ declog' = declog @@ (name :> r.log)
    /\ IF Cardinality(DOMAIN declog) + 1 = Len(KeyOrder)
       THEN Return("process")
       ELSE Continue("process")
    /\ Started("process")
    /\ UNCHANGED <<argv, output_dir, collections, meshes, poses, files, errlog,
                   cleanups, exit_code>>

\* a host call of lines 344-358 raises; when the mesh is over its target the
\* modifier of line 222 has been added and stays on the object
ProcessFail ==
    /\ pc = "process"
    /\ LET name == ProcessKeyNow
           obj == ObjectNamed(objects, meshes[name])
           t == apply_all_transforms(obj)
       IN  objects' = (objects \ {obj}) \cup
               {IF DecimateNeeded(get_mesh_triangle_count(t), TARGET_TRIANGLES[name])
                THEN [t EXCEPT !.mods = Append(t.mods, "Decimate")]
                ELSE t}
    /\ Raise("process")
    /\ Started("process")
    /\ UNCHANGED <<argv, output_dir, collections, meshes, poses, files, declog,
                   errlog, cleanups, exit_code>>

\* the objects main's meshes refer to
MeshObjects == {o \in objects : \E k \in DOMAIN meshes : meshes[k] = o.name}

\* lines 464-465
CenterOk ==
    /\ pc = "center"
    /\ objects' = (objects \ MeshObjects)
                  \cup {center_origin_to_floor(o) : o \in MeshObjects}
    /\ Return("center")
    /\ Started("center")
    /\ UNCHANGED <<argv, output_dir, collections, meshes, poses, files, declog,
                   errlog, cleanups, exit_code>>

CenterFail ==
    /\ pc = "center"
    /\ Raise("center")
    /\ Started("center")
    /\ UNCHANGED <<argv, output_dir, objects, collections, meshes, poses, files,
                   declog, errlog, cleanups, exit_code>>

PoseOf(step) == IF step \in {"create_open", "export_open"} THEN "open" ELSE "closed"

\* lines 468-469
CreatePoseOk(step) ==
    /\ pc = step
    /\ LET r == create_pose_collection(objects, collections, meshes, PoseOf(step))
       IN  /\ objects' = r.objects
           /\ collections' = r.collections
           /\ poses' = poses @@ (PoseOf(step) :> r.collection)
    /\ Return(step)
    /\ Started(step)
    /\ UNCHANGED <<argv, output_dir, meshes, files, declog, errlog, cleanups,
                   exit_code>>

\* a host call of the loop of lines 372-379 raises: the collection is there
CreatePoseFail(step) ==
    /\ pc = step
    /\ collections' = collections \cup
           {NewCollection(PoseCollectionName(collections, PoseOf(step)), TRUE)}
    /\ Raise(step)
    /\ Started(step)
    /\ UNCHANGED <<argv, output_dir, objects, meshes, poses, files, declog,
                   errlog, cleanups, exit_code>>

ExportName(step) == "pose-" \o PoseOf(step) \o ".glb"

\* lines 472-475
ExportOk(step) ==
    /\ pc = step
    /\ LET path == JoinPath(output_dir, ExportName(step))
           content == ExportedObjects(objects, poses[PoseOf(step)])
       IN  files' = [f \in DOMAIN files \cup {path} |->
                        IF f = path THEN content ELSE files[f]]
    /\ Return(step)
    /\ Started(step)
    /\ UNCHANGED <<argv, output_dir, objects, collections, meshes, poses, declog,
                   errlog, cleanups, exit_code>>

ExportFail(step) ==
    /\ pc = step
    /\ Raise(step)
    /\ Started(step)
    /\ UNCHANGED <<argv, output_dir, objects, collections, meshes, poses, files,
                   declog, errlog, cleanups, exit_code>>

\* lines 486-491: log the error, print the traceback, sys.exit(1)
Except ==
    /\ pc = "except"
    /\ errlog' = Append(errlog, "Error")
    /\ pending' = "SystemExit"
    /\ pc' = "finally"
    /\ UNCHANGED <<argv, output_dir, objects, collections, meshes, poses, files,
                   declog, failed, trace, cleanups, exit_code>>

\* lines 493-495
Finally ==
    /\ pc = "finally"
    /\ LET r == cleanup_scene(objects, collections)
       IN  /\ objects' = r.objects
           /\ collections' = r.collections
    /\ cleanups' = cleanups + 1
    /\ pc' = "exit"
    /\ UNCHANGED <<argv, output_dir, meshes, poses, files, declog, pending,
                   failed, errlog, trace, exit_code>>

\* main returns, or SystemExit leaves it: the process ends
Exit ==
    /\ pc = "exit"
    /\ exit_code' = ExitStatus(pending)
    /\ pc' = "done"
    /\ UNCHANGED <<argv, output_dir, objects, collections, meshes, poses, files,
                   declog, pending, failed, errlog, trace, cleanups>>

Next ==
    \/ ParseArgs
    \/ MkdirOk
    \/ MkdirFail
    \/ ExtractOk
    \/ ExtractFail
    \/ ProcessOk
    \/ ProcessFail
    \/ CenterOk
    \/ CenterFail
    \/ CreatePoseOk("create_open")
    \/ CreatePoseFail("create_open")
    \/ CreatePoseOk("create_closed")
    \/ CreatePoseFail("create_closed")
    \/ ExportOk("export_open")
    \/ ExportFail("export_open")
    \/ ExportOk("export_closed")
    \/ ExportFail("export_closed")
    \/ Except
    \/ Finally
    \/ Exit

Spec == Init /\ [][Next]_vars

SpecArgs == InitArgs /\ [][Next]_vars

----------------------------------------------------------------------------
(* The claims *)

Terminated == pc \in {"done", "aborted"}

Succeeded == pc = "done" /\ failed = "none"

OpenPath == JoinPath(output_dir, "pose-open.glb")
ClosedPath == JoinPath(output_dir, "pose-closed.glb")

\* the objects of the scene the run was given
InputScene == {o \in objects : ~o.created}

\* C1: every run that succeeds has written exactly pose-open.glb and
\* pose-closed.glb into the output directory, and each holds exactly four mesh
\* objects, named Body, Veins, Brain and Heart.
C1_TwoExportsOfFourNamedMeshes ==
    Succeeded =>
        /\ DOMAIN files = {OpenPath, ClosedPath}
        /\ \A f \in DOMAIN files :
            /\ Cardinality(files[f]) = 4
            /\ \A o \in files[f] : o.type = "MESH"
            /\ {o.name : o \in files[f]} = {"Body", "Veins", "Brain", "Heart"}

\* C2: the exit status is non-zero if a statement of the try block failed, and
\* zero if and only if all of them succeeded.
C2_ExitStatus ==
    Terminated =>
        /\ failed # "none" => exit_code # 0
        /\ exit_code = 0 <=>
            /\ failed = "none"
            /\ trace = <<"extract", "process", "center", "create_open",
                         "create_closed", "export_open", "export_closed">>
            /\ DOMAIN meshes = Keys /\ DOMAIN declog = Keys
            /\ DOMAIN poses = {"open", "closed"}
            /\ DOMAIN files = {OpenPath, ClosedPath}

C2_Witness == pc = "done" /\ failed = "export_closed" /\ exit_code = 1

\* what the exporter wrote, without the names
Geometry(content) == {[parts |-> o.parts, tris |-> o.tris, pose |-> o.pose] : o \in content}

\* C3: the meshes exported as pose-open are in the open pose, those exported as
\* pose-closed in the closed pose, and the two exports differ.
C3_TwoPoseVariants ==
    Succeeded =>
        /\ \A o \in files[OpenPath] : o.pose = POSE_TRANSFORMS.open
        /\ \A o \in files[ClosedPath] : o.pose = POSE_TRANSFORMS.closed
        /\ Geometry(files[OpenPath]) # Geometry(files[ClosedPath])

\* the tokens after the first "--"
ArgsAfterSeparator ==
    LET seps == {i \in 1..Len(argv) : argv[i] = "--"}
    IN  IF seps = {} THEN <<>>
        ELSE LET first == CHOOSE i \in seps : \A j \in seps : i <= j
             IN  [k \in 1..(Len(argv) - first) |-> argv[first + k]]

Last(S) == CHOOSE i \in S : \A j \in S : j <= i

\* C4 as stated: the default when there is no "--", no "--output" after it, or
\* "--output" is the last token; otherwise the value after the last "--output".
C4_OutputDirAsStated ==
    pc # "parse" =>
        LET rest == ArgsAfterSeparator
            occ == {i \in 1..Len(rest) : rest[i] = "--output"}
        IN  output_dir =
                IF occ = {} \/ rest[Len(rest)] = "--output" THEN DefaultOutputDir
                ELSE rest[Last(occ) + 1]

\* C4, amended: the output directory is the token after the last "--output"
\* that has a token after it, among the tokens after the first "--"; the
\* default when there is no such "--output".
C4_OutputDirAmended ==
    pc # "parse" =>
        LET rest == ArgsAfterSeparator
            occ == {i \in 1..(Len(rest) - 1) : rest[i] = "--output"}
        IN  output_dir = IF occ = {} THEN "public/models/human" ELSE rest[Last(occ) + 1]

C4_Witness ==
    /\ pc = "done"
    /\ argv = <<"--", "--output", "a", "--output">>
    /\ output_dir = "a"
    /\ OpenPath \in DOMAIN files

IsPrefix(a, b) == Len(a) <= Len(b) /\ a = SubSeq(b, 1, Len(a))

\* C5: the statements run in the fixed order, each at most once; once one has
\* failed no other is started, so nothing is exported after a failure.
C5_FixedOrderNoRetry ==
    /\ IsPrefix(trace, <<"extract", "process", "center", "create_open",
                         "create_closed", "export_open", "export_closed">>)
    /\ pc \in {"extract", "process", "center", "create_open", "create_closed",
               "export_open", "export_closed"}
         => /\ failed = "none"
            /\ \/ trace # <<>> /\ trace[Len(trace)] = pc
               \/ Append(trace, pc) =
                     SubSeq(<<"extract", "process", "center", "create_open",
                              "create_closed", "export_open", "export_closed">>,
                            1, Len(trace) + 1)
    /\ failed \notin {"none", "mkdir"} => trace # <<>> /\ trace[Len(trace)] = failed
    /\ failed = "mkdir" => trace = <<>>
    /\ OpenPath \in DOMAIN files => failed \in {"none", "export_closed"}
    /\ ClosedPath \in DOMAIN files => failed = "none" /\ OpenPath \in DOMAIN files
    /\ failed \in {"extract", "process"} => files = <<>> /\ poses = <<>>

C5_Witness ==
    /\ pc = "done"
    /\ failed = "export_open"
    /\ files = <<>>
    /\ trace = <<"extract", "process", "center", "create_open", "create_closed",
                 "export_open">>

\* C6: after main has terminated the scene holds no object and no collection
\* that the run created.
C6_NothingCreatedIsLeft ==
    pc = "done" =>
        /\ \A o \in objects : ~o.created
        /\ \A c \in collections : ~c.created

\* C7: once the try block is entered cleanup_scene runs exactly once before the
\* process ends, after the error is logged and before the exit status is set;
\* afterwards no collection has a name starting with HumanLayer_.
C7_CleanupOnce ==
    /\ pc \in {"extract", "process", "center", "create_open", "create_closed",
               "export_open", "export_closed", "except", "finally"}
         => cleanups = 0 /\ exit_code = -1
    /\ pc \in {"exit", "done"} => cleanups = 1
    /\ pc = "exit" => exit_code = -1
    /\ cleanups >= 1 /\ failed # "none" => errlog = <<"Error">>
    /\ cleanups >= 1 =>
         \A c \in collections : ~StartsWith(c.name, "HumanLayer_")

C7_Witness ==
    /\ pc = "exit"
    /\ failed = "create_closed"
    /\ cleanups = 1
    /\ errlog # <<>>
    /\ \E o \in objects : o.created

\* whether a name contains a pattern of the key, whatever the case
NameMatches ==
    [n \in {x[1] : x \in InputKinds}, k \in Keys |->
        \E i \in 1..Len(MESH_PATTERNS[k]) :
            Contains(Lower(MESH_PATTERNS[k][i]), Lower(n))]

\* the input meshes whose name contains a pattern of the key
Matching(k) == {o \in InputScene : o.type = "MESH" /\ NameMatches[o.name, k]}

RECURSIVE TotalTris(_)
TotalTris(S) ==
    IF S = {} THEN 0
    ELSE LET x == CHOOSE y \in S : TRUE IN x.tris + TotalTris(S \ {x})

\* C8: extraction maps each of the four keys to an existing mesh object: a
\* placeholder if and only if no input mesh matches the key, and otherwise the
\* join of one duplicate of every matching input mesh.
C8_ExtractedMeshes ==
    /\ pc \notin {"parse", "mkdir", "extract", "aborted"} /\ failed # "extract"
         => DOMAIN meshes = Keys
    /\ DOMAIN meshes \subseteq Keys
    /\ \A k \in DOMAIN meshes :
         \E o \in objects :
            /\ o.name = meshes[k]
            /\ o.type = "MESH"
            /\ o.placeholder <=> Matching(k) = {}
            /\ o.parts = SetToBag({m.name : m \in Matching(k)})
            /\ k \notin DOMAIN declog /\ ~o.placeholder
                 => o.tris = TotalTris(Matching(k))

C8_Witness ==
    /\ pc = "process"
    /\ declog = <<>>
    /\ ObjectNamed(objects, meshes["Body"]).placeholder
    /\ BagCardinality(ObjectNamed(objects, meshes["Veins"]).parts) = 2
    /\ \E o \in InputScene : o.type # "MESH" /\ o.name = "Body"

\* the triangles of a mesh as extraction left it
ExtractedTris(k) ==
    IF Matching(k) = {} THEN PlaceholderTris(k) ELSE TotalTris(Matching(k))

\* C9: decimate_mesh decimates if and only if the mesh has more triangles than
\* its target; otherwise mesh and modifiers are left as they were; the ratio
\* it asks for, target/count, is strictly between 0 and 1.
C9_DecimateIffOverTarget ==
    \A k \in DOMAIN declog :
        LET l == declog[k]
            target == [Body |-> 20000, Veins |-> 30000, Brain |-> 15000,
                       Heart |-> 10000][k]
        IN  /\ l.target = target
            /\ l.before = ExtractedTris(k)
            /\ l.decimated <=> l.before > target
            /\ ~l.decimated => l.after = l.before /\ l.mods_after = l.mods_before
            /\ l.decimated =>
                 /\ l.ratio = <<target, l.before>>
                 /\ 0 < l.ratio[1] /\ l.ratio[1] < l.ratio[2]

C9_Witness ==
    /\ DOMAIN declog = Keys
    /\ declog["Veins"].decimated
    /\ ~declog["Heart"].decimated /\ declog["Heart"].before = declog["Heart"].target

====
